---- MODULE Spec2Model ----
(***************************************************************************)
(* Schulbuchverwaltung (src/app.py): the Firestore collection of book      *)
(* documents, the Streamlit session state of each browser session, the     *)
(* evaluator berechne_felder and the form buch_formular with its write     *)
(* path save_book.                                                         *)
(*                                                                         *)
(* Python dicts are functions with a domain of strings, so that a missing  *)
(* key, an added key and a removed key are all expressible.  Texts that    *)
(* the code trims are sequences of one-character strings.                  *)
(***************************************************************************)
EXTENDS Integers, Sequences, FiniteSets, TLC

VARIABLES
    store,          \* the collection "schulbuecher": document id -> document
    session_state,  \* per browser session: st.session_state
    widgets,        \* per session: the form values typed but not yet submitted
    ausgabe,        \* what the last script run reported, and for which session
    buch,           \* the dict handed to berechne_felder (evaluator runs)
    roh,            \* that dict as it was before the first evaluation
    laeufe          \* number of evaluations applied to buch

vars == <<store, session_state, widgets, ausgabe, buch, roh, laeufe>>

----------------------------------------------------------------------------
(* Program constants *)

RESERVE == 5

Modi == {"einzeln", "doppel", "flexibel"}

\* Two of the class names of ALLE_KLASSEN.
Klassen == {"5a", "6b"}

----------------------------------------------------------------------------
(* Bounds of the model *)

\* Evaluator runs: largest per-class count, stock and need of an input dict.
MaxAnzahl == 2
MaxLager == 6
MaxBedarf == 3
MaxLaeufe == 2

----------------------------------------------------------------------------
(* Python dicts *)

\* {}
Leer == [k \in {} |-> 0]

\* None
None == [none |-> TRUE]

\* d.get(k, def)
Get(d, k, def) == IF k \in DOMAIN d THEN d[k] ELSE def

\* d[k] = v
Setze(d, k, v) == (k :> v) @@ d

\* {x: v for x, v in d.items() if x != k}
Ohne(d, k) == [x \in DOMAIN d \ {k} |-> d[x]]

\* v or {}
OderLeer(v) == IF v = None THEN Leer ELSE v

\* isinstance(data, dict): a per-class value that is no dict is the marker
\* [kein_dict |-> n].
IstDict(data) == "kein_dict" \notin DOMAIN data

Max(a, b) == IF a >= b THEN a ELSE b

\* sum(int(v) for v in d.values())
RECURSIVE SummeUeber(_, _)
SummeUeber(d, S) ==
    IF S = {} THEN 0
    ELSE LET k == CHOOSE x \in S : TRUE
         IN  d[k] + SummeUeber(d, S \ {k})

Summe(d) == SummeUeber(d, DOMAIN d)

\* the loop of berechne_felder over flex.items(), for one of "umlauf", "zurueck"
RECURSIVE FlexSummeUeber(_, _, _)
FlexSummeUeber(flex, feld, S) ==
    IF S = {} THEN 0
    ELSE LET k == CHOOSE x \in S : TRUE
             hier == IF IstDict(flex[k]) THEN Get(flex[k], feld, 0) ELSE 0
         IN  hier + FlexSummeUeber(flex, feld, S \ {k})

FlexSumme(flex, feld) == FlexSummeUeber(flex, feld, DOMAIN flex)

----------------------------------------------------------------------------
(* berechne_felder *)

\* A reserve that is not clamped at zero.
reserve_ungeklemmt(lager) == lager - RESERVE

\* A reserve that counts the last copy of the buffer.
reserve_ab_grenze(lager) == Max(lager - RESERVE + 1, 0)

\* reserve_verfuegbar = max(lager - RESERVE, 0)
reserve_verfuegbar(lager) == Max(lager - RESERVE, 0)

\* A double-cohort forecast that counts both cohorts as returning.
doppel_verfuegbar_beide(jg1_gesamt, jg2_gesamt, lager) ==
    jg1_gesamt + jg2_gesamt + reserve_verfuegbar(lager)

\* verfuegbar_next of the "doppel" branch
doppel_verfuegbar(jg1_gesamt, jg2_gesamt, lager) ==
    jg2_gesamt + reserve_verfuegbar(lager)

\* A flexible forecast that counts every copy in circulation as returning.
flex_verfuegbar_umlauf(umlauf_gesamt, zurueck_gesamt, lager) ==
    umlauf_gesamt + reserve_verfuegbar(lager)

\* verfuegbar_next of the "flexibel" branch
flex_verfuegbar(umlauf_gesamt, zurueck_gesamt, lager) ==
    zurueck_gesamt + reserve_verfuegbar(lager)

\* verfuegbar_next of the default branch
einzeln_verfuegbar(umlauf_gesamt, lager) ==
    umlauf_gesamt + reserve_verfuegbar(lager)

\* An alarm that is also raised when the forecast just meets the need.
abschluss_alarm_bei_null(b, umlauf_gesamt, gesamt, verfuegbar_next, bedarf) ==
    LET differenz == verfuegbar_next - bedarf
        b1 == Setze(b, "umlauf_gesamt", umlauf_gesamt)
        b2 == Setze(b1, "gesamt", gesamt)
        b3 == Setze(b2, "verfuegbar_next", verfuegbar_next)
        b4 == Setze(b3, "differenz", differenz)
    IN  Setze(b4, "alarm", differenz <= 0)

\* A forecast that is added to the one the dict already carries.
abschluss_aufsummiert(b, umlauf_gesamt, gesamt, verfuegbar_next, bedarf) ==
    LET summe == Get(b, "verfuegbar_next", 0) + verfuegbar_next
        differenz == summe - bedarf
        b1 == Setze(b, "umlauf_gesamt", umlauf_gesamt)
        b2 == Setze(b1, "gesamt", gesamt)
        b3 == Setze(b2, "verfuegbar_next", summe)
        b4 == Setze(b3, "differenz", differenz)
    IN  Setze(b4, "alarm", differenz < 0)

\* the assignments every branch ends in
abschluss(b, umlauf_gesamt, gesamt, verfuegbar_next, bedarf) ==
    LET differenz == verfuegbar_next - bedarf
        b1 == Setze(b, "umlauf_gesamt", umlauf_gesamt)
        b2 == Setze(b1, "gesamt", gesamt)
        b3 == Setze(b2, "verfuegbar_next", verfuegbar_next)
        b4 == Setze(b3, "differenz", differenz)
    IN  Setze(b4, "alarm", differenz < 0)

berechne_felder(b) ==
    LET lager  == Get(b, "lager", 0)
        bedarf == Get(b, "bedarf_next", 0)
        modus  == Get(b, "modus", "einzeln")
    IN  IF modus = "doppel" THEN
            LET jg1 == OderLeer(Get(b, "jahrgang1_klassen", Leer))
                jg2 == OderLeer(Get(b, "jahrgang2_klassen", Leer))
                jg1_gesamt == Summe(jg1)
                jg2_gesamt == Summe(jg2)
                umlauf_gesamt == jg1_gesamt + jg2_gesamt
                gesamt == umlauf_gesamt + lager
                verfuegbar_next == doppel_verfuegbar(jg1_gesamt, jg2_gesamt, lager)
                b1 == Setze(b, "jahrgang1_gesamt", jg1_gesamt)
                b2 == Setze(b1, "jahrgang2_gesamt", jg2_gesamt)
            IN  abschluss(b2, umlauf_gesamt, gesamt, verfuegbar_next, bedarf)
        ELSE IF modus = "flexibel" THEN
            LET flex == OderLeer(Get(b, "flex_klassen", Leer))
                umlauf_gesamt == FlexSumme(flex, "umlauf")
                zurueck_gesamt == FlexSumme(flex, "zurueck")
                gesamt == umlauf_gesamt + lager
                verfuegbar_next == flex_verfuegbar(umlauf_gesamt, zurueck_gesamt, lager)
                b1 == Setze(b, "zurueck_gesamt", zurueck_gesamt)
            IN  abschluss(b1, umlauf_gesamt, gesamt, verfuegbar_next, bedarf)
        ELSE
            LET uk == OderLeer(Get(b, "umlauf_klassen", Leer))
                umlauf_gesamt == Summe(uk)
                gesamt == umlauf_gesamt + lager
                verfuegbar_next == einzeln_verfuegbar(umlauf_gesamt, lager)
            IN  abschluss(b, umlauf_gesamt, gesamt, verfuegbar_next, bedarf)

----------------------------------------------------------------------------
(* Texts *)

\* str.lstrip() and str.rstrip() for the blank
RECURSIVE lstrip(_)
lstrip(t) == IF t # << >> /\ Head(t) = " " THEN lstrip(Tail(t)) ELSE t

RECURSIVE rstrip(_)
rstrip(t) == IF t # << >> /\ t[Len(t)] = " " THEN rstrip(SubSeq(t, 1, Len(t) - 1)) ELSE t

\* str.strip()
strip(t) == rstrip(lstrip(t))

----------------------------------------------------------------------------
(* Firestore: the collection is a function from document ids to documents *)

\* The document ids the model uses, in the order stream() yields them.
IdOrdnung == << <<"a">>, <<"b">> >>

\* document(id).set(payload, merge=True): map fields are merged key by key,
\* other fields replaced, fields the payload lacks kept.
DocSetMerge(st, id, payload) ==
    IF id \notin DOMAIN st THEN Setze(st, id, payload)
    ELSE LET alt == st[id]
             IstZuordnung(k) == k \in {"umlauf_klassen", "jahrgang1_klassen",
                                       "jahrgang2_klassen", "flex_klassen"}
             Gemischt(k) ==
                 [x \in DOMAIN alt[k] \cup DOMAIN payload[k] |->
                     IF x \in DOMAIN payload[k] THEN payload[k][x] ELSE alt[k][x]]
             neu == [k \in DOMAIN alt \cup DOMAIN payload |->
                        IF k \notin DOMAIN payload THEN alt[k]
                        ELSE IF k \in DOMAIN alt /\ IstZuordnung(k) THEN Gemischt(k)
                        ELSE payload[k]]
         IN  Setze(st, id, neu)

\* col_ref(db).document(id).set(payload)
DocSet(st, id, payload) == Setze(st, id, payload)

\* col_ref(db).document(id).delete()
DocDelete(st, id) == Ohne(st, id)

\* A migration that takes a record with flex_klassen for a flexible one.
migriere_raet_flexibel(row) ==
    IF "modus" \notin DOMAIN row
    THEN Setze(row, "modus",
               IF "flex_klassen" \in DOMAIN row THEN "flexibel"
               ELSE IF Get(row, "doppeljahrgang", FALSE) THEN "doppel" ELSE "einzeln")
    ELSE row

\* load_all, "Migration": a row without modus gets it from doppeljahrgang
migriere(row) ==
    IF "modus" \notin DOMAIN row
    THEN Setze(row, "modus",
               IF Get(row, "doppeljahrgang", FALSE) THEN "doppel" ELSE "einzeln")
    ELSE row

\* A load that leaves the row's fields as they are.
felder_belassen(row) == row

\* load_all, "Felder sicherstellen": the mappings of the row's mode exist
felder_sicherstellen(row) ==
    LET Sicher(r, k) == IF k \notin DOMAIN r THEN Setze(r, k, Leer) ELSE r
    IN  IF row.modus = "doppel"
        THEN Sicher(Sicher(row, "jahrgang1_klassen"), "jahrgang2_klassen")
        ELSE IF row.modus = "flexibel" THEN Sicher(row, "flex_klassen")
        ELSE Sicher(row, "umlauf_klassen")

\* one iteration of the loop of load_all: the row made of document d.id
lade_zeile(id, doc) == felder_sicherstellen(migriere(Setze(doc, "_id", id)))

RECURSIVE lade_zeilen(_, _, _)
lade_zeilen(st, ids, n) ==
    IF n = 0 THEN << >>
    ELSE Append(lade_zeilen(st, ids, n - 1), lade_zeile(ids[n], st[ids[n]]))

load_all(st) ==
    LET Vorhanden(id) == id \in DOMAIN st
        ids == SelectSeq(IdOrdnung, Vorhanden)
    IN  lade_zeilen(st, ids, Len(ids))

\* Messages of save_book
MeldungIsbnLeer == [art |-> "error", was |-> "isbn_leer"]
MeldungSpeicherfehler == [art |-> "error", was |-> "speicherfehler"]

\* A payload that carries the evaluated fields along.
payload_mit_abgeleiteten(data) == berechne_felder(Ohne(data, "_id"))

\* payload = {k: v for k, v in data.items() if k != "_id"}
payload_von(data) == Ohne(data, "_id")

\* save_book(db, data); db_ok is whether the write goes through or raises
save_book(st, data, db_ok) ==
    LET isbn == strip(Get(data, "isbn", << >>))
    IN  IF isbn = << >>
        THEN [ok |-> FALSE, store |-> st, meldungen |-> <<MeldungIsbnLeer>>]
        ELSE IF db_ok
        THEN [ok |-> TRUE, store |-> DocSet(st, isbn, payload_von(data)), meldungen |-> << >>]
        ELSE [ok |-> FALSE, store |-> st, meldungen |-> <<MeldungSpeicherfehler>>]

MeldungLoeschfehler == [art |-> "error", was |-> "loeschfehler"]

\* delete_book(db, isbn)
delete_book(st, isbn, db_ok) ==
    IF db_ok
    THEN [ok |-> TRUE, store |-> DocDelete(st, isbn), meldungen |-> << >>]
    ELSE [ok |-> FALSE, store |-> st, meldungen |-> <<MeldungLoeschfehler>>]

----------------------------------------------------------------------------
(* buch_formular *)

\* Values of the fields the model does not vary.
Heute == <<"d">>
ErstesFach == "Mathematik"

\* the dict buch_formular starts from when existing is None
neues_buch ==
    [isbn |-> << >>, titel |-> << >>, fach |-> ErstesFach, klasse |-> << >>,
     modus |-> "einzeln", umlauf_klassen |-> Leer, jahrgang1_klassen |-> Leer,
     jahrgang2_klassen |-> Leer, flex_klassen |-> Leer, lager |-> 0,
     bedarf_next |-> 0, anschaffung |-> Heute, bestellbar |-> TRUE,
     notizen |-> << >>]

\* An ISBN field that stays editable when an existing book is edited.
form_isbn_frei(is_new, existing, getippt) == getippt

\* isbn = st.text_input("ISBN *", value=existing["isbn"], disabled=not is_new)
form_isbn(is_new, existing, getippt) == IF is_new THEN getippt ELSE existing["isbn"]

\* A loop that keeps every class it is shown a number for.
alle_werte(eingabe) == eingabe

\* the loops "if val > 0: uk_new[kl] = val" (also jg1_new, jg2_new)
nur_positive(eingabe) ==
    [kl \in {x \in DOMAIN eingabe : eingabe[x] > 0} |-> eingabe[kl]]

\* the loop "if umlauf > 0: flex_new[kl] = {umlauf, zurueck}"
flex_nur_umlauf(eingabe) ==
    [kl \in {x \in DOMAIN eingabe : eingabe[x].umlauf > 0} |->
        [umlauf |-> eingabe[kl].umlauf, zurueck |-> eingabe[kl].zurueck]]

\* A validation that finds nothing.
flex_fehler_keine(flex_new) == {}

\* fehler: one entry per class of flex_new with zurueck > umlauf, holding what
\* the message names
flex_fehler(flex_new) ==
    {[klasse |-> kl, zurueck |-> flex_new[kl].zurueck, umlauf |-> flex_new[kl].umlauf] :
        kl \in {x \in DOMAIN flex_new :
                   Get(flex_new[x], "zurueck", 0) > Get(flex_new[x], "umlauf", 0)}}

\* st.error("ISBN und Titel sind Pflichtfelder."): one text for both fields
MeldungPflichtfelder == [art |-> "error", was |-> "pflichtfelder", felder |-> {"isbn", "titel"}]

\* st.error("Fehler: ..." + one line per entry of fehler)
MeldungRueckgabe(fehler) == [art |-> "error", was |-> "rueckgabe", fehler |-> fehler]

\* st.success(f"Buch '{titel}' erfolgreich gespeichert!")
MeldungGespeichert(titel) == [art |-> "success", was |-> "gespeichert", titel |-> titel]

\* An st.error that is not followed by return False: the form goes on.
abbruch_ohne_return(meldung, weiter) ==
    [weiter EXCEPT !.meldungen = <<meldung>> \o @]

\* st.error(...); return False
abbruch(meldung, weiter) == [speichern |-> FALSE, meldungen |-> <<meldung>>, buch |-> Leer]

\* A cleared field that keeps the mapping of the record being edited.
behalten(existing, feld) == Get(existing, feld, Leer)

\* buch[feld] = {} for the mappings of the modes not chosen
geleert(existing, feld) == Leer

\* "# Berechnung anzeigen" of the branch "einzeln": verf_next and diff
vorschau_einzeln(uk_new, lager, bedarf) ==
    LET umlauf_summe == Summe(uk_new)
        verf_next == umlauf_summe + Max(lager - RESERVE, 0)
    IN  [verf_next |-> verf_next, diff |-> verf_next - bedarf]

\* "# Berechnung anzeigen" of the branch "doppel"
vorschau_doppel(jg1_new, jg2_new, lager, bedarf) ==
    LET jg1_summe == Summe(jg1_new)
        jg2_summe == Summe(jg2_new)
        verf_next == jg2_summe + Max(lager - RESERVE, 0)
    IN  [verf_next |-> verf_next, diff |-> verf_next - bedarf]

\* A preview that counts every copy in circulation as returning.
vorschau_flexibel_umlauf(flex_new, lager, bedarf) ==
    LET umlauf_summe == FlexSumme(flex_new, "umlauf")
        verf_next == umlauf_summe + Max(lager - RESERVE, 0)
    IN  [verf_next |-> verf_next, diff |-> verf_next - bedarf]

\* "# Berechnung anzeigen" of the branch "flexibel"
vorschau_flexibel(flex_new, lager, bedarf) ==
    LET umlauf_summe == FlexSumme(flex_new, "umlauf")
        zurueck_summe == FlexSumme(flex_new, "zurueck")
        behalten_summe == umlauf_summe - zurueck_summe
        verf_next == zurueck_summe + Max(lager - RESERVE, 0)
    IN  [verf_next |-> verf_next, diff |-> verf_next - bedarf]

\* the metrics "Verfuegbar naechstes Jahr" and "Differenz" the form shows in
\* a run with the widget values e
form_vorschau(e) ==
    IF e.modus = "einzeln" THEN vorschau_einzeln(nur_positive(e.uk), e.lager, e.bedarf)
    ELSE IF e.modus = "doppel"
    THEN vorschau_doppel(nur_positive(e.jg1), nur_positive(e.jg2), e.lager, e.bedarf)
    ELSE vorschau_flexibel(flex_nur_umlauf(e.flex), e.lager, e.bedarf)

\* the part of buch_formular after "if submitted:", up to the call of
\* save_book: which dict to save, or which error to show
buch_formular(existing, is_new, e) ==
    LET isbn == form_isbn(is_new, existing, e.isbn)
        modus == e.modus
        uk_new == IF modus = "einzeln" THEN nur_positive(e.uk) ELSE Leer
        jg1_new == IF modus = "doppel" THEN nur_positive(e.jg1) ELSE Leer
        jg2_new == IF modus = "doppel" THEN nur_positive(e.jg2) ELSE Leer
        flex_new == IF modus = "flexibel" THEN flex_nur_umlauf(e.flex) ELSE Leer
        grund == [isbn |-> strip(isbn), titel |-> strip(e.titel), fach |-> e.fach,
                  klasse |-> strip(e.klasse), modus |-> modus, lager |-> e.lager,
                  bedarf_next |-> e.bedarf, anschaffung |-> strip(e.anschaffung),
                  bestellbar |-> e.bestellbar, notizen |-> strip(e.notizen)]
        Mit(b, uk, jg1, jg2, flex) ==
            Setze(Setze(Setze(Setze(Setze(b,
                "umlauf_klassen", uk), "jahrgang1_klassen", jg1),
                "jahrgang2_klassen", jg2), "flex_klassen", flex),
                "doppeljahrgang", modus = "doppel")
        Fertig(b) == [speichern |-> TRUE, meldungen |-> << >>, buch |-> b]
        doppel == Fertig(Mit(grund, geleert(existing, "umlauf_klassen"), jg1_new, jg2_new,
                             geleert(existing, "flex_klassen")))
        flexibel == Fertig(Mit(grund, geleert(existing, "umlauf_klassen"),
                               geleert(existing, "jahrgang1_klassen"),
                               geleert(existing, "jahrgang2_klassen"), flex_new))
        einzeln == Fertig(Mit(grund, uk_new, geleert(existing, "jahrgang1_klassen"),
                              geleert(existing, "jahrgang2_klassen"),
                              geleert(existing, "flex_klassen")))
        fehler == flex_fehler(flex_new)
        nach_pflicht ==
            IF modus = "doppel" THEN doppel
            ELSE IF modus = "flexibel"
            THEN (IF fehler # {} THEN abbruch(MeldungRueckgabe(fehler), flexibel) ELSE flexibel)
            ELSE einzeln
    IN  IF strip(isbn) = << >> \/ strip(e.titel) = << >>
        THEN abbruch(MeldungPflichtfelder, nach_pflicht)
        ELSE nach_pflicht

----------------------------------------------------------------------------
(* main_app: one run of the script for one session *)

Sitzungen == {"s1", "s2"}

\* the effect of buecher_zu_df on the list it is given: berechne_felder
\* writes the derived fields into every dict of the list
RECURSIVE berechnete_bis(_, _)
berechnete_bis(buecher, n) ==
    IF n = 0 THEN << >>
    ELSE Append(berechnete_bis(buecher, n - 1), berechne_felder(buecher[n]))

berechnete_buecher(buecher) == berechnete_bis(buecher, Len(buecher))

\* the row buecher_zu_df makes of one dict (the columns the overview sums
\* and groups)
df_zeile(b0) ==
    LET b == berechne_felder(b0)
    IN  [isbn |-> Get(b, "isbn", << >>), klasse |-> Get(b, "klasse", << >>),
         modus |-> Get(b, "modus", "einzeln"), umlauf_gesamt |-> Get(b, "umlauf_gesamt", 0),
         lager |-> Get(b, "lager", 0), gesamt |-> Get(b, "gesamt", 0),
         bedarf_next |-> Get(b, "bedarf_next", 0),
         verfuegbar_next |-> Get(b, "verfuegbar_next", 0),
         differenz |-> Get(b, "differenz", 0), alarm |-> Get(b, "alarm", FALSE)]

\* the DataFrame buecher_zu_df returns: one row per dict, in order
RECURSIVE df_bis(_, _)
df_bis(buecher, n) ==
    IF n = 0 THEN << >> ELSE Append(df_bis(buecher, n - 1), df_zeile(buecher[n]))

buecher_zu_df(buecher) == df_bis(buecher, Len(buecher))

RECURSIVE SpaltenSumme(_, _, _)
SpaltenSumme(df, spalte, I) ==
    IF I = {} THEN 0
    ELSE LET i == CHOOSE x \in I : TRUE
         IN  df[i][spalte] + SpaltenSumme(df, spalte, I \ {i})

\* df_plot of "Bestand pro Klasse": df.groupby("klasse")["gesamt"].sum()
bestand_pro_klasse(df) ==
    [k \in {df[i].klasse : i \in DOMAIN df} |->
        SpaltenSumme(df, "gesamt", {i \in DOMAIN df : df[i].klasse = k})]

\* A start of main_app that only loads when there is no cache.
main_kopf_ohne_reload(ss, st) ==
    LET laden == "buecher" \notin DOMAIN ss
        ss1 == IF laden THEN Ohne(Setze(ss, "buecher", load_all(st)), "reload") ELSE ss
    IN  Setze(ss1, "buecher", berechnete_buecher(ss1["buecher"]))

\* the start of main_app: reload the cache if asked to or if there is none,
\* then build the table from it
main_kopf(ss, st) ==
    LET laden == Get(ss, "reload", FALSE) \/ "buecher" \notin DOMAIN ss
        ss1 == IF laden THEN Ohne(Setze(ss, "buecher", load_all(st)), "reload") ELSE ss
    IN  Setze(ss1, "buecher", berechnete_buecher(ss1["buecher"]))

\* the row of the cache the edit tab has selected
gewaehltes_buch(buecher, ziel) ==
    buecher[CHOOSE i \in DOMAIN buecher : buecher[i]["isbn"] = ziel]

CacheIsbns(ss) ==
    IF "buecher" \in DOMAIN ss
    THEN {ss["buecher"][i]["isbn"] : i \in DOMAIN ss["buecher"]}
    ELSE {}

angemeldet(s) == Get(session_state[s], "logged_in", FALSE)

\* What a run reports: the session, the interaction, the ISBN of the book
\* selected in the edit tab (empty if none), what the form or the delete
\* returned, the messages shown, and the dict that was saved.
AusgabeStart ==
    [sitzung |-> "-", aktion |-> "start", ziel |-> << >>, ergebnis |-> FALSE,
     meldungen |-> << >>, buch |-> Leer]

Bericht(s, aktion, ziel, ergebnis, meldungen, b) ==
    [sitzung |-> s, aktion |-> aktion, ziel |-> ziel, ergebnis |-> ergebnis,
     meldungen |-> meldungen, buch |-> b]

KeineWidgets == [leer |-> TRUE]

UnveraendertCalc == UNCHANGED <<buch, roh, laeufe>>

\* render_login_page with a matching password: logged_in, then st.rerun()
\* and the first run of main_app
Anmelden(s) ==
    /\ ~angemeldet(s)
    /\ session_state' = [session_state EXCEPT
          ![s] = main_kopf(Setze(session_state[s], "logged_in", TRUE), store)]
    /\ ausgabe' = Bericht(s, "anmelden", << >>, TRUE, << >>, Leer)
    /\ UNCHANGED <<store, widgets>>
    /\ UnveraendertCalc

\* the button "Abmelden": the keys are dropped, st.rerun(), run() puts
\* logged_in back as False
Abmelden(s) ==
    /\ angemeldet(s)
    /\ LET ss1 == main_kopf(session_state[s], store)
           ss2 == Ohne(Ohne(ss1, "logged_in"), "buecher")
       IN  session_state' = [session_state EXCEPT ![s] = Setze(ss2, "logged_in", FALSE)]
    /\ ausgabe' = Bericht(s, "abmelden", << >>, TRUE, << >>, Leer)
    /\ UNCHANGED <<store, widgets>>
    /\ UnveraendertCalc

\* a run that changes nothing (a filter, a tab, an export)
Lauf(s) ==
    /\ angemeldet(s)
    /\ session_state' = [session_state EXCEPT ![s] = main_kopf(session_state[s], store)]
    /\ ausgabe' = Bericht(s, "lauf", << >>, TRUE, << >>, Leer)
    /\ UNCHANGED <<store, widgets>>
    /\ UnveraendertCalc

\* the button "Daten neu laden": reload is set, st.rerun()
NeuLaden(s) ==
    /\ angemeldet(s)
    /\ LET ss1 == main_kopf(session_state[s], store)
           ss2 == Setze(ss1, "reload", TRUE)
       IN  session_state' = [session_state EXCEPT ![s] = main_kopf(ss2, store)]
    /\ ausgabe' = Bericht(s, "neu_laden", << >>, TRUE, << >>, Leer)
    /\ UNCHANGED <<store, widgets>>
    /\ UnveraendertCalc

\* a run in which a form is submitted with the values e: the form of the tab
\* "Buch hinzufuegen" if is_new, else the form of the edit tab for the book
\* with ISBN ziel; ss1 is the session state after the start of main_app;
\* db_ok is whether the write goes through or raises
FormularLauf(s, ss1, is_new, ziel, e) ==
    /\ angemeldet(s)
    /\ is_new \/ ziel \in CacheIsbns(ss1)
    /\ \E f \in {buch_formular(IF is_new THEN neues_buch
                               ELSE gewaehltes_buch(ss1["buecher"], ziel),
                               is_new, e)} :
         \E db_ok \in (IF f.speichern THEN BOOLEAN ELSE {TRUE}) :
           \E sb \in {IF f.speichern THEN save_book(store, f.buch, db_ok)
                      ELSE [ok |-> FALSE, store |-> store, meldungen |-> << >>]} :
             /\ store' = sb.store
             /\ session_state' = [session_state EXCEPT
                   ![s] = IF sb.ok THEN Setze(Ohne(ss1, "edit_isbn"), "reload", TRUE)
                          ELSE ss1]
             /\ ausgabe' = Bericht(s, IF is_new THEN "neu" ELSE "edit", ziel, sb.ok,
                                   f.meldungen \o sb.meldungen \o
                                   (IF sb.ok THEN <<MeldungGespeichert(e.titel)>> ELSE << >>),
                                   IF sb.ok THEN f.buch ELSE Leer)
    /\ UnveraendertCalc

Absenden(s, is_new, ziel, e) ==
    \E ss1 \in {main_kopf(session_state[s], store)} : FormularLauf(s, ss1, is_new, ziel, e)

MeldungGeloescht(titel) == [art |-> "success", was |-> "geloescht", titel |-> titel]

\* the button "Endgueltig loeschen" of the edit tab; after a delete that
\* went through: reload is set, st.rerun()
Loeschen(s, ziel) ==
    /\ angemeldet(s)
    /\ \E ss1 \in {main_kopf(session_state[s], store)} :
         /\ ziel \in CacheIsbns(ss1)
         /\ \E gewaehlt \in {gewaehltes_buch(ss1["buecher"], ziel)}, db_ok \in BOOLEAN :
              \E del \in {delete_book(store, gewaehlt["isbn"], db_ok)} :
                /\ store' = del.store
                /\ session_state' = [session_state EXCEPT
                      ![s] = IF del.ok THEN main_kopf(Setze(ss1, "reload", TRUE), del.store)
                             ELSE ss1]
                /\ ausgabe' = Bericht(s, "loeschen", ziel, del.ok,
                       del.meldungen \o
                       (IF del.ok THEN <<MeldungGeloescht(gewaehlt["titel"])>> ELSE << >>),
                       Leer)
    /\ UNCHANGED widgets
    /\ UnveraendertCalc

----------------------------------------------------------------------------
(* What a user can enter in the form *)

\* Bounds of the form values: the largest count and the largest number of
\* returning copies entered for a class
MaxUmlauf == 1
MaxZurueck == 2

\* what is typed into the ISBN and title fields
IsbnEingaben == {<<" ">>, <<"a">>, <<"b", " ">>}
TitelEingaben == {<<" ">>, <<"t", " ">>}

\* the numbers a user may try to put into a number field
Getippt(n) == -1 .. n

\* A number field without a lower limit.
number_input_ohne_min(min_value, werte) == werte

\* st.number_input(..., min_value=0): the values of werte the widget returns
number_input(min_value, werte) == {w \in werte : w >= min_value}

\* the number inputs shown for a class list: class -> value
EingabeZuordnungen(K) ==
    UNION {[T -> number_input(0, Getippt(MaxUmlauf))] : T \in SUBSET K}

EingabeFlex(K) ==
    UNION {[T -> [umlauf : number_input(0, Getippt(MaxUmlauf)),
                  zurueck : number_input(0, Getippt(MaxZurueck))]] : T \in SUBSET K}

\* the mode chosen and the values of the inputs that mode shows
ModusEingaben(K) ==
    {[modus |-> "einzeln", uk |-> m, jg1 |-> Leer, jg2 |-> Leer, flex |-> Leer] :
        m \in EingabeZuordnungen(K)}
    \cup
    {[modus |-> "doppel", uk |-> Leer, jg1 |-> z[1], jg2 |-> z[2], flex |-> Leer] :
        z \in EingabeZuordnungen(K) \X EingabeZuordnungen(K)}
    \cup
    {[modus |-> "flexibel", uk |-> Leer, jg1 |-> Leer, jg2 |-> Leer, flex |-> m] :
        m \in EingabeFlex(K)}

\* the forms with texts from I and T and mode inputs from M
Eingaben(I, T, M, L, B) ==
    {[isbn |-> x[1], titel |-> x[2], fach |-> ErstesFach, klasse |-> <<"5">>,
      modus |-> x[3].modus, lager |-> x[4], bedarf |-> x[5], anschaffung |-> Heute,
      bestellbar |-> TRUE, notizen |-> << >>,
      uk |-> x[3].uk, jg1 |-> x[3].jg1, jg2 |-> x[3].jg2, flex |-> x[3].flex] :
        x \in I \X T \X M \X L \X B}

\* the texts that are not blank
Ausgefuellt(T) == {t \in T : strip(t) # << >>}

\* Single mode with no class entered
OhneKlassen == [modus |-> "einzeln", uk |-> Leer, jg1 |-> Leer, jg2 |-> Leer, flex |-> Leer]

----------------------------------------------------------------------------
(* Spec: one session works on the store through the forms *)

\* the mode inputs of the workflows: one class, and in Double mode the same
\* counts for both cohorts
ModusEingabenSpec == {m \in ModusEingaben({"5a"}) : m.jg1 = m.jg2}

\* the values submitted with the form for a new book
\* (every mode input with ISBN and title given, and one with each blank text)
EingabenNeu ==
    Eingaben(Ausgefuellt(IsbnEingaben), Ausgefuellt(TitelEingaben), ModusEingabenSpec,
             {RESERVE + 1}, {1})
    \cup Eingaben(IsbnEingaben, TitelEingaben, {OhneKlassen}, {RESERVE + 1}, {1})

\* the values submitted with the form for an existing book, whose ISBN field
\* is disabled: the value the field would send if it were not
EingabenEdit ==
    Eingaben({<<"b", " ">>}, Ausgefuellt(TitelEingaben), ModusEingabenSpec,
             {RESERVE + 1}, {1})
    \cup Eingaben({<<"b", " ">>}, TitelEingaben, {OhneKlassen}, {RESERVE + 1}, {1})

Init ==
    /\ store = Leer
    /\ session_state = [s \in Sitzungen |-> [logged_in |-> FALSE]]
    /\ widgets = [s \in Sitzungen |-> KeineWidgets]
    /\ ausgabe = AusgabeStart
    /\ buch = Leer
    /\ roh = Leer
    /\ laeufe = 0

NeuAbsenden ==
    \E ss1 \in {main_kopf(session_state["s1"], store)} :
      \E e \in EingabenNeu : FormularLauf("s1", ss1, TRUE, << >>, e) /\ UNCHANGED widgets

BearbeitenAbsenden ==
    \E ss1 \in {main_kopf(session_state["s1"], store)} :
      \E ziel \in CacheIsbns(session_state["s1"]) :
        \E e \in EingabenEdit : FormularLauf("s1", ss1, FALSE, ziel, e) /\ UNCHANGED widgets

BuchLoeschen ==
    \E ziel \in CacheIsbns(session_state["s1"]) : Loeschen("s1", ziel)

Next ==
    \/ Anmelden("s1")
    \/ Abmelden("s1")
    \/ Lauf("s1")
    \/ NeuLaden("s1")
    \/ NeuAbsenden
    \/ BearbeitenAbsenden
    \/ BuchLoeschen

Spec == Init /\ [][Next]_vars

(* SpecFormular: one form for a new book is filled in and submitted *)

EingabenFormular ==
    Eingaben(IsbnEingaben, TitelEingaben, ModusEingaben(Klassen),
             {0, RESERVE, RESERVE + 1}, {0, 1})

Ausfuellen ==
    /\ angemeldet("s1")
    /\ widgets["s1"] = KeineWidgets
    /\ \E e \in EingabenFormular : widgets' = [widgets EXCEPT !["s1"] = e]
    /\ UNCHANGED <<store, session_state, ausgabe>>
    /\ UnveraendertCalc

FormularAbsenden ==
    /\ widgets["s1"] # KeineWidgets
    /\ ausgabe.aktion # "neu"
    /\ Absenden("s1", TRUE, << >>, widgets["s1"])
    /\ UNCHANGED widgets

NextFormular ==
    \/ Anmelden("s1")
    \/ Ausfuellen
    \/ FormularAbsenden

SpecFormular == Init /\ [][NextFormular]_vars

(* SpecZahlen: books are saved and deleted, with every value the number
   fields of the form return *)

\* (every mode input with a stock above the reserve, and an empty stock with
\* no class entered)
EingabenZahlen ==
    Eingaben(Ausgefuellt(IsbnEingaben), Ausgefuellt(TitelEingaben), ModusEingabenSpec,
             number_input(0, {-1, RESERVE + 1}), number_input(0, {-1, 1}))
    \cup Eingaben(Ausgefuellt(IsbnEingaben), Ausgefuellt(TitelEingaben), {OhneKlassen},
                  number_input(0, {-1, 0}), number_input(0, {-1, 1}))

ZahlenAbsenden ==
    \E ss1 \in {main_kopf(session_state["s1"], store)} :
      \E e \in EingabenZahlen : FormularLauf("s1", ss1, TRUE, << >>, e) /\ UNCHANGED widgets

NextZahlen ==
    \/ Anmelden("s1")
    \/ ZahlenAbsenden
    \/ BuchLoeschen

SpecZahlen == Init /\ [][NextZahlen]_vars

(* SpecReload: two sessions save and delete books of one store, each with
   its own cached list *)

\* Single mode with one copy in class 5a
EineKlasse ==
    [modus |-> "einzeln", uk |-> [kl \in {"5a"} |-> 1], jg1 |-> Leer, jg2 |-> Leer,
     flex |-> Leer]

\* the values submitted with the forms: Single mode, with one class or none
EingabenReload ==
    Eingaben(Ausgefuellt(IsbnEingaben), Ausgefuellt(TitelEingaben),
             {OhneKlassen, EineKlasse}, {RESERVE + 1}, {1})

ReloadNeu(s) ==
    \E ss1 \in {main_kopf(session_state[s], store)} :
      \E e \in EingabenReload : FormularLauf(s, ss1, TRUE, << >>, e) /\ UNCHANGED widgets

ReloadBearbeiten(s) ==
    \E ss1 \in {main_kopf(session_state[s], store)} :
      \E ziel \in CacheIsbns(ss1) :
        \E e \in EingabenReload : FormularLauf(s, ss1, FALSE, ziel, e) /\ UNCHANGED widgets

ReloadLoeschen(s) ==
    \E ziel \in CacheIsbns(session_state[s]) : Loeschen(s, ziel)

NextReload ==
    \E s \in Sitzungen :
        \/ Anmelden(s)
        \/ Lauf(s)
        \/ ReloadNeu(s)
        \/ ReloadBearbeiten(s)
        \/ ReloadLoeschen(s)

SpecReload == Init /\ [][NextReload]_vars

----------------------------------------------------------------------------
(* SpecSave: save_book called with any dict *)

UnbekannterModus == "halbjahr"

SaveDaten ==
    LET Grund == {[isbn |-> i, titel |-> <<"t">>, modus |-> m, lager |-> l] :
                    i \in IsbnEingaben, m \in Modi \cup {UnbekannterModus}, l \in 0..MaxUmlauf}
    IN  Grund \cup {Setze(d, "_id", <<"a">>) : d \in Grund} \cup {Ohne(d, "isbn") : d \in Grund}

SaveBookAufruf ==
    /\ \E data \in SaveDaten, db_ok \in BOOLEAN :
         \E sb \in {save_book(store, data, db_ok)} :
           /\ store' = sb.store
           /\ ausgabe' = Bericht("-", "save_book", << >>, sb.ok, sb.meldungen,
                                 IF sb.ok THEN data ELSE Leer)
    /\ UNCHANGED <<session_state, widgets>>
    /\ UnveraendertCalc

NextSave == SaveBookAufruf

SpecSave == Init /\ [][NextSave]_vars

----------------------------------------------------------------------------
(* SpecZwei: two sessions edit the same book, each through its own form *)

\* the book both sessions edit: saved earlier through the form for a new
\* book, in Double mode with one copy per cohort in class 5a
ErsteEingabe ==
    CHOOSE e \in EingabenNeu :
        /\ e.isbn = <<"a">>
        /\ e.modus = "doppel"
        /\ e.jg1 = [k \in {"5a"} |-> 1]

Erstbuch == buch_formular(neues_buch, TRUE, ErsteEingabe).buch

InitZwei ==
    /\ store = [id \in {<<"a">>} |-> Erstbuch]
    /\ session_state = [s \in Sitzungen |-> [logged_in |-> FALSE]]
    /\ widgets = [s \in Sitzungen |-> KeineWidgets]
    /\ ausgabe = AusgabeStart
    /\ buch = Leer
    /\ roh = Leer
    /\ laeufe = 0

\* the session has saved: reload is set and no run has followed
hat_gespeichert(s) == Get(session_state[s], "reload", FALSE)

\* the session fills in the edit form of book "a"
EditAusfuellen(s) ==
    /\ angemeldet(s)
    /\ widgets[s] = KeineWidgets
    /\ \E e \in EingabenEdit : widgets' = [widgets EXCEPT ![s] = e]
    /\ UNCHANGED <<store, session_state, ausgabe>>
    /\ UnveraendertCalc

\* the session submits the edit form it has filled in
EditAbsenden(s) ==
    /\ widgets[s] # KeineWidgets
    /\ ~hat_gespeichert(s)
    /\ Absenden(s, FALSE, <<"a">>, widgets[s])
    /\ UNCHANGED widgets

NextZwei ==
    \E s \in Sitzungen :
        \/ Anmelden(s)
        \/ EditAusfuellen(s)
        \/ EditAbsenden(s)

SpecZwei == InitZwei /\ [][NextZwei]_vars

----------------------------------------------------------------------------
(* SpecKlasse: books with different texts in the field "Klasse" are added, *)
(* and the overview groups them                                            *)

\* what is typed into the field "Klasse"
KlasseEingaben == {<<"5">>, <<"5", "/", "6">>}

EingabenKlasse ==
    {[e EXCEPT !.klasse = k] :
        e \in Eingaben(Ausgefuellt(IsbnEingaben), Ausgefuellt(TitelEingaben),
                       {m \in ModusEingabenSpec : m.modus # "doppel"}, {RESERVE + 1}, {1}),
        k \in KlasseEingaben}

KlasseAbsenden ==
    \E ss1 \in {main_kopf(session_state["s1"], store)} :
      \E e \in EingabenKlasse : FormularLauf("s1", ss1, TRUE, << >>, e) /\ UNCHANGED widgets

NextKlasse ==
    \/ Anmelden("s1")
    \/ Lauf("s1")
    \/ KlasseAbsenden

SpecKlasse == Init /\ [][NextKlasse]_vars

----------------------------------------------------------------------------
(* The dicts the evaluator is run on *)

\* class -> count, over any subset of the classes
Zuordnungen == UNION {[T -> 0..MaxAnzahl] : T \in SUBSET Klassen}

\* class -> {"umlauf": .., "zurueck": ..}, over any subset of the classes
FlexZuordnungen ==
    UNION {[T -> [umlauf : 0..MaxAnzahl, zurueck : 0..MaxAnzahl]] : T \in SUBSET Klassen}

\* mappings left behind in the fields of the modes a record is not in
AltZuordnung == [k \in {"5a"} |-> 1]
AltFlex == [k \in {"6b"} |-> [umlauf |-> 2, zurueck |-> 1]]

RohBuch(modus, lager, bedarf, uk, jg1, jg2, flex) ==
    [isbn |-> <<"a">>, titel |-> <<"t">>, modus |-> modus,
     lager |-> lager, bedarf_next |-> bedarf,
     umlauf_klassen |-> uk, jahrgang1_klassen |-> jg1,
     jahrgang2_klassen |-> jg2, flex_klassen |-> flex]

\* the mappings of the modes a record is not in: empty, or left behind
Rest(alt) == IF alt THEN AltZuordnung ELSE Leer
RestFlex(alt) == IF alt THEN AltFlex ELSE Leer

----------------------------------------------------------------------------
(* Evaluator runs: berechne_felder applied to one dict, in place *)

InitCalc ==
    /\ \E l \in 0..MaxLager, n \in 0..MaxBedarf, alt \in BOOLEAN :
          \/ \E uk \in Zuordnungen :
                buch = RohBuch("einzeln", l, n, uk, Rest(alt), Rest(alt), RestFlex(alt))
          \/ \E jg1 \in Zuordnungen, jg2 \in Zuordnungen :
                buch = RohBuch("doppel", l, n, Rest(alt), jg1, jg2, RestFlex(alt))
          \/ \E flex \in FlexZuordnungen :
                buch = RohBuch("flexibel", l, n, Rest(alt), Rest(alt), Rest(alt), flex)
    /\ roh = buch
    /\ laeufe = 0
    /\ store = Leer
    /\ session_state = [s \in Sitzungen |-> [logged_in |-> FALSE]]
    /\ widgets = [s \in Sitzungen |-> KeineWidgets]
    /\ ausgabe = AusgabeStart

Berechne ==
    /\ laeufe < MaxLaeufe
    /\ buch' = berechne_felder(buch)
    /\ laeufe' = laeufe + 1
    /\ UNCHANGED <<roh, store, session_state, widgets, ausgabe>>

NextCalc == Berechne

SpecCalc == InitCalc /\ [][NextCalc]_vars

----------------------------------------------------------------------------
(* SpecLaden: a session loads a collection that holds a document written   *)
(* before the modes existed, or by hand                                    *)

\* the parts such a document may have or lack: a mode tag, the old marker
\* doppeljahrgang, and each mapping (missing, null or filled)
ModusTeile == {Leer} \cup {[modus |-> m] : m \in Modi \cup {UnbekannterModus}}

MarkerTeile == {Leer} \cup {[doppeljahrgang |-> w] : w \in BOOLEAN}

FeldTeile(feld, gefuellt) == {Leer, feld :> None, feld :> gefuellt}

AlteDokumente ==
    {[isbn |-> <<"a">>, titel |-> <<"t">>, lager |-> x[1], bedarf_next |-> 1]
        @@ x[2] @@ x[3] @@ x[4] @@ x[5] @@ x[6] @@ x[7] :
        x \in {0, RESERVE + 1} \X ModusTeile \X MarkerTeile
              \X FeldTeile("umlauf_klassen", AltZuordnung)
              \X FeldTeile("jahrgang1_klassen", AltZuordnung)
              \X FeldTeile("jahrgang2_klassen", AltZuordnung)
              \X FeldTeile("flex_klassen", AltFlex)}

InitLaden ==
    /\ \E doc \in AlteDokumente : store = [id \in {<<"a">>} |-> doc]
    /\ session_state = [s \in Sitzungen |-> [logged_in |-> FALSE]]
    /\ widgets = [s \in Sitzungen |-> KeineWidgets]
    /\ ausgabe = AusgabeStart
    /\ buch = Leer
    /\ roh = Leer
    /\ laeufe = 0

NextLaden ==
    \/ Anmelden("s1")
    \/ Lauf("s1")
    \/ NeuLaden("s1")

SpecLaden == InitLaden /\ [][NextLaden]_vars

----------------------------------------------------------------------------
(* Claims about the evaluator *)

\* C1: for every Single-mode record with non-negative counts, the evaluated
\* verfuegbar_next is the sum of all umlauf_klassen counts plus
\* max(lager - 5, 0), and alarm is true exactly when verfuegbar_next is
\* below bedarf_next.
C1_EinzelnPrognose ==
    (laeufe > 0 /\ roh.modus = "einzeln") =>
        /\ buch.verfuegbar_next =
              Summe(roh.umlauf_klassen) + (IF roh.lager > 5 THEN roh.lager - 5 ELSE 0)
        /\ buch.alarm = (buch.verfuegbar_next < roh.bedarf_next)

\* An evaluated Single-mode record with copies in two classes, stock below
\* the reserve and an alarm.
C1_Zeuge ==
    /\ laeufe > 0
    /\ roh.modus = "einzeln"
    /\ DOMAIN roh.umlauf_klassen = Klassen
    /\ Summe(roh.umlauf_klassen) = 2
    /\ roh.lager = 3
    /\ buch.alarm

\* C2: two Double-mode records that agree on jahrgang2_klassen, lager and
\* bedarf_next but differ in jahrgang1_klassen get the same verfuegbar_next,
\* differenz and alarm.
C2_Jahrgang1OhneEinfluss ==
    (laeufe > 0 /\ roh.modus = "doppel") =>
        \A jg1 \in Zuordnungen :
            LET anders == berechne_felder([roh EXCEPT !.jahrgang1_klassen = jg1])
            IN  /\ anders.verfuegbar_next = buch.verfuegbar_next
                /\ anders.differenz = buch.differenz
                /\ anders.alarm = buch.alarm

\* An evaluated Double-mode record with copies in cohort 1, and a twin that
\* differs only in cohort 1 and has another umlauf_gesamt and gesamt.
C2_Zeuge ==
    /\ laeufe > 0
    /\ roh.modus = "doppel"
    /\ Summe(roh.jahrgang1_klassen) > 0
    /\ Summe(roh.jahrgang2_klassen) > 0
    /\ \E jg1 \in Zuordnungen :
          LET anders == berechne_felder([roh EXCEPT !.jahrgang1_klassen = jg1])
          IN  /\ anders.umlauf_gesamt # buch.umlauf_gesamt
              /\ anders.gesamt # buch.gesamt

\* the count a class -> count mapping holds for a class, 0 if none
Anzahl(d, kl) == IF kl \in DOMAIN d THEN d[kl] ELSE 0

\* the count a flex_klassen mapping holds for a class under "umlauf" or
\* "zurueck", 0 if none
FlexAnzahl(flex, kl, feld) == IF kl \in DOMAIN flex THEN flex[kl][feld] ELSE 0

\* the copies of the input dict that come back next year, by its mode
Rueckkehrer(r) ==
    IF r.modus = "doppel"
    THEN Anzahl(r.jahrgang2_klassen, "5a") + Anzahl(r.jahrgang2_klassen, "6b")
    ELSE IF r.modus = "flexibel"
    THEN FlexAnzahl(r.flex_klassen, "5a", "zurueck") + FlexAnzahl(r.flex_klassen, "6b", "zurueck")
    ELSE Anzahl(r.umlauf_klassen, "5a") + Anzahl(r.umlauf_klassen, "6b")

\* C12: in every mode the stock adds max(lager - 5, 0) to verfuegbar_next:
\* nothing for a stock of 0 to 5, one copy for a stock of 6; the reserve of 5
\* is never counted.
C12_ReserveGrenze ==
    laeufe > 0 =>
        LET aus_lager == buch.verfuegbar_next - Rueckkehrer(roh)
        IN  /\ aus_lager = (IF roh.lager > 5 THEN roh.lager - 5 ELSE 0)
            /\ roh.lager <= 5 => aus_lager = 0
            /\ roh.lager = 6 => aus_lager = 1

\* An evaluated Flexible-mode record with exactly the reserve in stock and
\* two copies coming back.
C12_Zeuge ==
    /\ laeufe > 0
    /\ roh.modus = "flexibel"
    /\ roh.lager = 5
    /\ Rueckkehrer(roh) = 2
    /\ buch.verfuegbar_next = 2

\* C13: in every mode differenz is verfuegbar_next - bedarf_next, signed and
\* not clamped, and alarm is true exactly when differenz is negative: not
\* when it is 0, and never when bedarf_next is 0.
C13_VorzeichenUndAlarm ==
    laeufe > 0 =>
        /\ buch.differenz = buch.verfuegbar_next - roh.bedarf_next
        /\ buch.alarm = (buch.differenz < 0)
        /\ buch.differenz = 0 => ~buch.alarm
        /\ roh.bedarf_next = 0 => ~buch.alarm

\* An evaluated Double-mode record whose forecast just meets a need of two
\* copies: no alarm.
C13_Zeuge ==
    /\ laeufe > 0
    /\ roh.modus = "doppel"
    /\ roh.bedarf_next = 2
    /\ buch.differenz = 0
    /\ ~buch.alarm

\* C14: for a Flexible-mode record umlauf_gesamt is the sum of umlauf over
\* the classes, zurueck_gesamt the sum of zurueck, and verfuegbar_next is
\* zurueck_gesamt + max(lager - 5, 0): the copies that stay with the pupils
\* are not in it.
C14_FlexSummen ==
    (laeufe > 0 /\ roh.modus = "flexibel") =>
        LET umlauf == FlexAnzahl(roh.flex_klassen, "5a", "umlauf")
                      + FlexAnzahl(roh.flex_klassen, "6b", "umlauf")
            zurueck == FlexAnzahl(roh.flex_klassen, "5a", "zurueck")
                       + FlexAnzahl(roh.flex_klassen, "6b", "zurueck")
        IN  /\ buch.umlauf_gesamt = umlauf
            /\ buch.zurueck_gesamt = zurueck
            /\ buch.verfuegbar_next = zurueck + (IF roh.lager > 5 THEN roh.lager - 5 ELSE 0)

\* An evaluated Flexible-mode record with two classes, copies that stay with
\* the pupils, and stock above the reserve.
C14_Zeuge ==
    /\ laeufe > 0
    /\ roh.modus = "flexibel"
    /\ DOMAIN roh.flex_klassen = Klassen
    /\ buch.umlauf_gesamt > buch.zurueck_gesamt
    /\ buch.zurueck_gesamt > 0
    /\ roh.lager > 5

\* C16: after berechne_felder has run on a dict, the dict is as it was
\* before the call: the same keys with the same values.
C16_EingabeUnveraendert ==
    laeufe > 0 => buch = roh

\* the derived fields every mode yields
Kernfelder == {"umlauf_gesamt", "gesamt", "verfuegbar_next", "differenz", "alarm"}

\* C17: a second evaluation of the same dict yields the same umlauf_gesamt,
\* gesamt, verfuegbar_next, differenz and alarm as the first, in every mode.
C17_Idempotent ==
    [][(laeufe >= 1 /\ laeufe' = laeufe + 1) =>
          \A f \in Kernfelder : buch'[f] = buch[f]]_vars

\* A Double-mode dict with copies in both cohorts and an alarm, evaluated
\* twice.
C17_Zeuge ==
    /\ laeufe = 2
    /\ roh.modus = "doppel"
    /\ Rueckkehrer(roh) > 0
    /\ buch.umlauf_gesamt > Rueckkehrer(roh)
    /\ buch.alarm

----------------------------------------------------------------------------
(* Claims about the form for a new book (SpecFormular) *)

\* the form has been filled in and submitted
Abgesendet == widgets["s1"] # KeineWidgets /\ ausgabe.aktion = "neu"

\* C3: a Flexible-mode submission (ISBN and title given) in which some
\* class has zurueck greater than umlauf is rejected with an over-return
\* error that names the class and both values, whatever the non-negative
\* values are.
C3_UeberRueckgabeAbgelehnt ==
    (/\ Abgesendet
     /\ widgets["s1"].modus = "flexibel"
     /\ strip(widgets["s1"].isbn) # << >>
     /\ strip(widgets["s1"].titel) # << >>) =>
        \A kl \in DOMAIN widgets["s1"].flex :
            LET w == widgets["s1"].flex[kl]
            IN  w.zurueck > w.umlauf =>
                  /\ ~ausgabe.ergebnis
                  /\ \E i \in DOMAIN ausgabe.meldungen :
                        /\ ausgabe.meldungen[i].was = "rueckgabe"
                        /\ [klasse |-> kl, zurueck |-> w.zurueck, umlauf |-> w.umlauf]
                              \in ausgabe.meldungen[i].fehler

\* C7: a submission with an empty ISBN and a submission with an empty title
\* get distinct errors: the error names exactly the fields that are empty.
C7_FehlerNenntFeld ==
    Abgesendet =>
        LET leer == {f \in {"isbn", "titel"} :
                        strip(IF f = "isbn" THEN widgets["s1"].isbn
                              ELSE widgets["s1"].titel) = << >>}
        IN  leer # {} =>
              \E i \in DOMAIN ausgabe.meldungen :
                  /\ ausgabe.meldungen[i].was = "pflichtfelder"
                  /\ ausgabe.meldungen[i].felder = leer

----------------------------------------------------------------------------
(* Claims about save_book (SpecSave) *)

\* C8: a dict whose mode tag is none of the three recognised values is
\* rejected at the write boundary, so every stored document has a recognised
\* mode.
C8_ModusGeprueft ==
    \A id \in DOMAIN store : store[id].modus \in Modi

----------------------------------------------------------------------------
(* Claims about the workflows (Spec) *)

\* the messages of a validation failure of the form
Validierungsfehler(meldungen) ==
    \E i \in DOMAIN meldungen : meldungen[i].was \in {"pflichtfelder", "rueckgabe"}

\* the run that led to the next state submitted a form
FormularGelaufen == ausgabe'.aktion \in {"neu", "edit"}

\* C4: every stored Flexible-mode record has zurueck <= umlauf in every
\* entry of flex_klassen.
C4_RueckgabeHoechstensUmlauf ==
    \A id \in DOMAIN store :
        store[id].modus = "flexibel" =>
            \A kl \in DOMAIN store[id].flex_klassen :
                store[id].flex_klassen[kl].zurueck <= store[id].flex_klassen[kl].umlauf

\* A stored Flexible-mode record in which a whole class hands its copies
\* back, after a submission with more returns than copies was turned down.
C4_Zeuge ==
    /\ \E id \in DOMAIN store :
          /\ store[id].modus = "flexibel"
          /\ \E kl \in DOMAIN store[id].flex_klassen :
                /\ store[id].flex_klassen[kl].umlauf = 1
                /\ store[id].flex_klassen[kl].zurueck = 1
    /\ ausgabe.aktion = "edit"
    /\ ~ausgabe.ergebnis
    /\ \E i \in DOMAIN ausgabe.meldungen : ausgabe.meldungen[i].was = "rueckgabe"

\* the mappings of the modes other than the record's own
FremdeZuordnungen(modus) ==
    IF modus = "doppel" THEN {"umlauf_klassen", "flex_klassen"}
    ELSE IF modus = "flexibel"
    THEN {"umlauf_klassen", "jahrgang1_klassen", "jahrgang2_klassen"}
    ELSE {"jahrgang1_klassen", "jahrgang2_klassen", "flex_klassen"}

\* C5: every record written by a form save has empty mappings for all modes
\* other than its own, whatever the record held before.
C5_NurAktiverModus ==
    \A id \in DOMAIN store :
        \A feld \in FremdeZuordnungen(store[id].modus) : store[id][feld] = Leer

\* A record that was Single-mode with copies in a class when the table was
\* loaded, and has since been saved as Double-mode through the edit form.
C5_Zeuge ==
    /\ ausgabe.aktion = "edit"
    /\ ausgabe.ergebnis
    /\ store[ausgabe.ziel].modus = "doppel"
    /\ store[ausgabe.ziel].jahrgang2_klassen # Leer
    /\ \E i \in DOMAIN session_state["s1"]["buecher"] :
          LET alt == session_state["s1"]["buecher"][i]
          IN  /\ alt.isbn = ausgabe.ziel
              /\ alt.modus = "einzeln"
              /\ alt.umlauf_klassen # Leer

C9_GanzUeberschrieben ==
    [][(FormularGelaufen /\ ausgabe'.ergebnis /\ ausgabe'.buch.isbn \in DOMAIN store) =>
          /\ DOMAIN store' = DOMAIN store
          /\ \A id \in DOMAIN store :
                store'[id] = IF id = ausgabe'.buch.isbn THEN ausgabe'.buch ELSE store[id]]_vars

\* The form for a new book has been saved under an ISBN that the table
\* loaded earlier lists in Flexible mode; the stored record is Single-mode.
C9_Zeuge ==
    /\ ausgabe.aktion = "neu"
    /\ ausgabe.ergebnis
    /\ store[ausgabe.buch.isbn] = ausgabe.buch
    /\ ausgabe.buch.modus = "einzeln"
    /\ \E i \in DOMAIN session_state["s1"]["buecher"] :
          LET alt == session_state["s1"]["buecher"][i]
          IN  /\ alt.isbn = ausgabe.buch.isbn
              /\ alt.modus = "flexibel"
              /\ alt.flex_klassen # Leer

\* C10: a save made through the edit form writes under the ISBN of the
\* record being edited, and if that record is still stored the set of keys
\* of the store stays the same.
C10_IsbnUnveraenderlich ==
    [][(ausgabe'.aktion = "edit" /\ ausgabe'.ergebnis) =>
          /\ ausgabe'.buch.isbn = ausgabe'.ziel
          /\ store'[ausgabe'.ziel] = ausgabe'.buch
          /\ ausgabe'.ziel \in DOMAIN store => DOMAIN store' = DOMAIN store]_vars

\* Two books are stored and the edit of one of them has been saved.
C10_Zeuge ==
    /\ ausgabe.aktion = "edit"
    /\ ausgabe.ergebnis
    /\ ausgabe.ziel = <<"a">>
    /\ DOMAIN store = {<<"a">>, <<"b">>}
    /\ store[<<"a">>] = ausgabe.buch

\* the fields berechne_felder adds to a dict
Abgeleitet ==
    {"umlauf_gesamt", "gesamt", "verfuegbar_next", "differenz", "alarm",
     "jahrgang1_gesamt", "jahrgang2_gesamt", "zurueck_gesamt"}

\* a dict without the fields berechne_felder adds
Rohdaten(b) == [k \in DOMAIN b \ Abgeleitet |-> b[k]]

\* the rows a session holds in st.session_state["buecher"]
Zeilen(s) ==
    IF "buecher" \in DOMAIN session_state[s]
    THEN {session_state[s]["buecher"][i] : i \in DOMAIN session_state[s]["buecher"]}
    ELSE {}

\* C15: no stored document carries a derived field, whatever was loaded,
\* evaluated, edited and saved before; the derived fields of the rows a
\* session holds are the ones the evaluator computes from their raw fields.
C15_NurRohdaten ==
    /\ \A id \in DOMAIN store : DOMAIN store[id] \cap Abgeleitet = {}
    /\ \A s \in Sitzungen : \A row \in Zeilen(s) :
          \A f \in DOMAIN row \cap Abgeleitet : row[f] = berechne_felder(Rohdaten(row))[f]

\* The edit of a book has been saved; the row of that book in the session,
\* from which the form started, carries the derived fields, the stored
\* document does not.
C15_Zeuge ==
    /\ ausgabe.aktion = "edit"
    /\ ausgabe.ergebnis
    /\ store[ausgabe.ziel] = ausgabe.buch
    /\ DOMAIN store[ausgabe.ziel] \cap Abgeleitet = {}
    /\ \E row \in Zeilen("s1") :
          /\ row.isbn = ausgabe.ziel
          /\ Abgeleitet \cap DOMAIN row # {}
          /\ row.gesamt > row.lager

----------------------------------------------------------------------------
(* Claims about two sessions (SpecZwei) *)

\* the row of book "a" a session holds is the one loaded from the first
\* stored version
AlterStand(s) ==
    \E row \in Zeilen(s) : Ohne(Rohdaten(row), "_id") = Erstbuch

\* C11: when two sessions edit the same book from the same loaded rows and
\* both save, in either order, the stored document is in full the dict of
\* the save that came last: the later save goes through, and nothing the
\* earlier save wrote is left unless the later dict carries it.
C11_LetzterGewinnt ==
    (ausgabe.aktion = "edit" /\ ausgabe.ergebnis) =>
        /\ DOMAIN store = {<<"a">>}
        /\ store[<<"a">>] = ausgabe.buch
        /\ store[<<"a">>].modus = widgets[ausgabe.sitzung].modus
        /\ store[<<"a">>].titel = strip(widgets[ausgabe.sitzung].titel)
        /\ \A feld \in FremdeZuordnungen(store[<<"a">>].modus) : store[<<"a">>][feld] = Leer

\* Both sessions loaded the first version; s2 saved the book in Single mode
\* with a copy in class 5a, then s1 saved it in Flexible mode: the stored
\* document is s1's, with no umlauf_klassen.
C11_Zeuge ==
    /\ \A s \in Sitzungen : hat_gespeichert(s) /\ AlterStand(s)
    /\ widgets["s2"].modus = "einzeln"
    /\ widgets["s2"].uk = [k \in {"5a"} |-> 1]
    /\ widgets["s1"].modus = "flexibel"
    /\ widgets["s1"].flex # Leer
    /\ ausgabe.sitzung = "s1"
    /\ ausgabe.ergebnis
    /\ store[<<"a">>] = ausgabe.buch
    /\ store[<<"a">>].umlauf_klassen = Leer
    /\ store[<<"a">>].flex_klassen # Leer

----------------------------------------------------------------------------
(* Claims about loading old documents (SpecLaden) *)

\* the mapping fields of a mode, as the evaluator and load_all pick them
ModusFelder(modus) ==
    IF modus = "doppel" THEN {"jahrgang1_klassen", "jahrgang2_klassen"}
    ELSE IF modus = "flexibel" THEN {"flex_klassen"}
    ELSE {"umlauf_klassen"}

\* the dict has none of the mappings of the mode: each is missing or null
OhneZuordnung(d, modus) ==
    \A feld \in ModusFelder(modus) : feld \notin DOMAIN d \/ d[feld] = None

\* the evaluated dict shows no copies in circulation
WieLeer(b, lager) ==
    /\ b.umlauf_gesamt = 0
    /\ b.verfuegbar_next = (IF lager > 5 THEN lager - 5 ELSE 0)
    /\ b.gesamt = lager

\* C19: a record without the mapping of its mode (missing or null) is
\* evaluated as if the mapping were empty: umlauf_gesamt 0, verfuegbar_next
\* max(lager - 5, 0), gesamt = lager; and load_all puts an empty mapping
\* where the mapping of the record's mode is missing.
C19_FehlendeZuordnungLeer ==
    /\ \A id \in DOMAIN store :
          OhneZuordnung(store[id], Get(store[id], "modus", "einzeln")) =>
              WieLeer(berechne_felder(store[id]), store[id].lager)
    /\ \A row \in Zeilen("s1") :
          LET doc == store[row["_id"]]
          IN  /\ OhneZuordnung(doc, row.modus) => WieLeer(row, doc.lager)
              /\ \A feld \in ModusFelder(row.modus) :
                    /\ feld \in DOMAIN row
                    /\ feld \notin DOMAIN doc => row[feld] = Leer

\* A loaded and evaluated Double-mode document that has neither
\* jahrgang1_klassen nor jahrgang2_klassen, with stock above the reserve and
\* a filled umlauf_klassen left over.
C19_Zeuge ==
    /\ Zeilen("s1") # {}
    /\ \A row \in Zeilen("s1") :
          /\ row.modus = "doppel"
          /\ "jahrgang1_klassen" \notin DOMAIN store[row["_id"]]
          /\ "jahrgang2_klassen" \notin DOMAIN store[row["_id"]]
          /\ Get(store[row["_id"]], "umlauf_klassen", Leer) = AltZuordnung
          /\ row.jahrgang1_klassen = Leer
          /\ row.lager > 5
          /\ row.verfuegbar_next = row.lager - 5

\* C20: on load a document without a mode tag becomes "doppel" if its
\* doppeljahrgang is true and "einzeln" otherwise, also when it has no such
\* marker; it never becomes "flexibel"; a document with a mode tag keeps it.
C20_Migration ==
    \A row \in Zeilen("s1") :
        LET doc == store[row["_id"]]
        IN  IF "modus" \in DOMAIN doc
            THEN row.modus = doc.modus
            ELSE /\ row.modus = (IF "doppeljahrgang" \in DOMAIN doc /\ doc.doppeljahrgang
                                 THEN "doppel" ELSE "einzeln")
                 /\ row.modus # "flexibel"

\* A loaded document without mode tag and without marker that holds a filled
\* flex_klassen: it is loaded as "einzeln".
C20_Zeuge ==
    /\ Zeilen("s1") # {}
    /\ \A row \in Zeilen("s1") :
          /\ "modus" \notin DOMAIN store[row["_id"]]
          /\ "doppeljahrgang" \notin DOMAIN store[row["_id"]]
          /\ Get(store[row["_id"]], "flex_klassen", Leer) = AltFlex
          /\ row.modus = "einzeln"

----------------------------------------------------------------------------
(* Claims about the overview (SpecKlasse) *)

\* the rows session s1 holds, as the list main_app hands to buecher_zu_df
Buecher(s) == Get(session_state[s], "buecher", << >>)

\* the groups of "Bestand pro Klasse" that row i of the table is counted in
GruppenVon(df, i) == DOMAIN bestand_pro_klasse(<<df[i]>>)

\* C18: the per-class sums attribute a book's copies through its class
\* mappings, not through the text in klasse: two books with copies in
\* classes, of the same mode and with the same class mappings, are counted
\* in the same groups.
C18_GruppenAusZuordnung ==
    LET buecher == Buecher("s1")
        df == buecher_zu_df(buecher)
    IN  \A i, j \in DOMAIN buecher :
            (/\ df[i].umlauf_gesamt > 0
             /\ buecher[i].modus = buecher[j].modus
             /\ \A feld \in {"umlauf_klassen", "jahrgang1_klassen",
                             "jahrgang2_klassen", "flex_klassen"} :
                   buecher[i][feld] = buecher[j][feld])
            => GruppenVon(df, i) = GruppenVon(df, j)

----------------------------------------------------------------------------
(* Claims about SpecZahlen *)

\* the copies of a computed dict that come back next year, by its mode
ZurueckGesamt(b) ==
    IF b["modus"] = "doppel" THEN b["jahrgang2_gesamt"]
    ELSE IF b["modus"] = "flexibel" THEN b["zurueck_gesamt"]
    ELSE b["umlauf_gesamt"]

\* C21: whatever books were saved through the form and deleted, starting
\* from an empty store, every count of every stored document is at least 0
\* (lager, bedarf_next, the count of every class, umlauf and zurueck of every
\* flex class), and so are umlauf_gesamt, the returning total, verfuegbar_next
\* and gesamt that berechne_felder computes for it.
C21_ZaehlerNichtNegativ ==
    \A id \in DOMAIN store :
        LET d == store[id]
            b == berechne_felder(lade_zeile(id, d))
        IN  /\ d["lager"] >= 0
            /\ d["bedarf_next"] >= 0
            /\ \A feld \in {"umlauf_klassen", "jahrgang1_klassen", "jahrgang2_klassen"} :
                 \A kl \in DOMAIN d[feld] : d[feld][kl] >= 0
            /\ \A kl \in DOMAIN d["flex_klassen"] :
                 d["flex_klassen"][kl].umlauf >= 0 /\ d["flex_klassen"][kl].zurueck >= 0
            /\ b["umlauf_gesamt"] >= 0
            /\ ZurueckGesamt(b) >= 0
            /\ b["verfuegbar_next"] >= 0
            /\ b["gesamt"] >= 0

\* Reached: after a delete that went through, the store still holds a book
\* whose stock is below the reserve and whose forecast is 0.
C21_Zeuge ==
    /\ ausgabe.aktion = "loeschen"
    /\ ausgabe.ergebnis
    /\ \E id \in DOMAIN store :
         /\ store[id]["lager"] < RESERVE
         /\ berechne_felder(lade_zeile(id, store[id]))["verfuegbar_next"] = 0

----------------------------------------------------------------------------
(* More claims about the form for a new book (SpecFormular) *)

\* C22: when a submitted form was saved, in any mode, the verf_next and diff
\* the form showed for the submitted values are the verfuegbar_next and the
\* differenz berechne_felder computes for the document that was stored.
C22_VorschauWieBerechnung ==
    (Abgesendet /\ ausgabe.ergebnis) =>
        \A id \in DOMAIN store :
            LET b == berechne_felder(lade_zeile(id, store[id]))
                v == form_vorschau(widgets["s1"])
            IN  /\ v.verf_next = b["verfuegbar_next"]
                /\ v.diff = b["differenz"]

\* Reached: a Flexible-mode form was saved in which a class keeps a copy
\* (umlauf above zurueck), with a stock above the reserve and a need.
C22_Zeuge ==
    /\ Abgesendet
    /\ ausgabe.ergebnis
    /\ widgets["s1"].modus = "flexibel"
    /\ widgets["s1"].lager > RESERVE
    /\ widgets["s1"].bedarf > 0
    /\ \E id \in DOMAIN store :
         \E kl \in DOMAIN store[id]["flex_klassen"] :
            store[id]["flex_klassen"][kl].zurueck < store[id]["flex_klassen"][kl].umlauf

\* the classes of a class -> count input that were entered with count 0
NullKlassen(eingabe) == {kl \in DOMAIN eingabe : eingabe[kl] = 0}

\* C23: a document written by a form save holds no class with a count of 0:
\* every class of umlauf_klassen, jahrgang1_klassen and jahrgang2_klassen has
\* a count above 0 and every class of flex_klassen has umlauf above 0; a
\* class entered with count 0 (or with umlauf 0, whatever its zurueck) is
\* missing from the document, and no message of the form names it.
C23_KeineNullEintraege ==
    Abgesendet =>
        LET w == widgets["s1"]
        IN  /\ ausgabe.ergebnis =>
                \A id \in DOMAIN store :
                    LET d == store[id]
                    IN  /\ \A feld \in {"umlauf_klassen", "jahrgang1_klassen",
                                        "jahrgang2_klassen"} :
                             \A kl \in DOMAIN d[feld] : d[feld][kl] > 0
                        /\ \A kl \in DOMAIN d["flex_klassen"] :
                             d["flex_klassen"][kl].umlauf > 0
                        /\ DOMAIN d["umlauf_klassen"] \cap NullKlassen(w.uk) = {}
                        /\ DOMAIN d["jahrgang1_klassen"] \cap NullKlassen(w.jg1) = {}
                        /\ DOMAIN d["jahrgang2_klassen"] \cap NullKlassen(w.jg2) = {}
                        /\ \A kl \in DOMAIN w.flex :
                             w.flex[kl].umlauf = 0 => kl \notin DOMAIN d["flex_klassen"]
            /\ \A i \in DOMAIN ausgabe.meldungen :
                 ausgabe.meldungen[i].was = "rueckgabe" =>
                    \A f \in ausgabe.meldungen[i].fehler : w.flex[f.klasse].umlauf > 0

\* Reached: a form was saved in which one class was entered with umlauf 0
\* and a zurueck above 0 and another class with umlauf above 0; the document
\* holds the second class only.
C23_Zeuge ==
    /\ Abgesendet
    /\ ausgabe.ergebnis
    /\ \E kl \in DOMAIN widgets["s1"].flex :
         /\ widgets["s1"].flex[kl].umlauf = 0
         /\ widgets["s1"].flex[kl].zurueck > 0
    /\ \E id \in DOMAIN store :
         /\ store[id]["flex_klassen"] # Leer
         /\ DOMAIN store[id]["flex_klassen"] # DOMAIN widgets["s1"].flex

----------------------------------------------------------------------------
(* Claims about SpecReload *)

\* the session's reload flag
reload_gesetzt(ss) == Get(ss, "reload", FALSE)

====
